---------------------------- MODULE Spec2Model ----------------------------
(***************************************************************************)
(* Model of scripts/merge_media.py: one run of the media synchronization   *)
(* command line tool (main -> MediaSyncer.sync_media), and the pure        *)
(* duration arithmetic it is built on.                                     *)
(*                                                                         *)
(* Durations and speed factors are Python floats in the source.  They are  *)
(* modelled as exact rationals [n |-> numerator, d |-> denominator > 0],   *)
(* kept in lowest terms; the "%.6f" formatting that puts a factor into the *)
(* ffmpeg filter graph is modelled as rounding to six decimal places.      *)
(***************************************************************************)
EXTENDS Integers, Sequences, FiniteSets, TLC

VARIABLES
    argv,        \* sys.argv of the run (a sequence of tokens)
    pc,          \* position of the run in main / sync_media
    temp_dir,    \* MediaSyncer.temp_dir: <<>> is None, <<name>> once set
    fs_temp,     \* whether the session's temporary directory is on disk
    video_info,  \* sync_media's video_info: <<>> until inspected
    audio_info,  \* sync_media's audio_info: <<>> until inspected
    analysis,    \* sync_media's analysis: <<>> until analyze_sync_strategy returned
    method,      \* sync_media's local `method`
    cmd,         \* the ffmpeg invocation built by the dispatched _sync_* variant
    transcodes,  \* number of ffmpeg processes the run tried to start
    probes,      \* number of ffprobe processes the run started
    returncode,  \* process.returncode of the ffmpeg process: <<>> until it ended
    out_file,    \* the destination file on disk: <<>> absent, <<size>> present
    success,     \* sync_media's return value: <<>> until it returned
    exc,         \* the exception propagating out of the run ("" for none)
    exit_code,   \* the process's exit status: <<>> while it runs
    tempo_in,    \* pure-function harness: the requested tempo factor
    tempo_out    \* pure-function harness: <<>> or <<chain>> returned for tempo_in

vars == <<argv, pc, temp_dir, fs_temp, video_info, audio_info, analysis, method,
          cmd, transcodes, probes, returncode, out_file, success, exc, exit_code,
          tempo_in, tempo_out>>

runVars == <<argv, pc, temp_dir, fs_temp, video_info, audio_info, analysis, method,
             cmd, transcodes, probes, returncode, out_file, success, exc, exit_code>>

-----------------------------------------------------------------------------
(* Bounds of the model *)

\* Largest media duration (in whole time units) the probe reports.
MaxDur == 30
\* Tempo factors of the harness are n * 10^e / d.
MaxTempoNum == 12
MaxTempoDen == 12
MaxTempoExp == 4

-----------------------------------------------------------------------------
(* Exact rational arithmetic standing for the source's float arithmetic *)

Abs(x) == IF x < 0 THEN -x ELSE x

GCD[a \in Nat, b \in Nat] == IF b = 0 THEN a ELSE GCD[b, a % b]

\* The rational n/d (d # 0) in lowest terms with a positive denominator.
\* (Defined as functions so that TLC evaluates each argument once.)
Reduce[n \in Int, d \in Int] ==
    LET g == GCD[Abs(n), Abs(d)]
        s == IF d < 0 THEN -1 ELSE 1
    IN  [n |-> s * (n \div g), d |-> Abs(d) \div g]

Rat(n, d) == Reduce[n, d]

RatInt(k) == [n |-> k, d |-> 1]

\* The set of all rationals in this representation.
Rational == [n : Int, d : Nat]

Product[x \in Rational, y \in Rational] ==
    LET g1 == GCD[Abs(x.n), y.d]
        g2 == GCD[Abs(y.n), x.d]
    IN  [n |-> (x.n \div g1) * (y.n \div g2), d |-> (x.d \div g2) * (y.d \div g1)]

RatMul(x, y) == Product[x, y]

\* 1/x for x # 0
Reciprocal[x \in Rational] ==
    IF x.n < 0 THEN [n |-> -x.d, d |-> -x.n] ELSE [n |-> x.d, d |-> x.n]

RatInv(x) == Reciprocal[x]

RatDiv(x, y) == RatMul(x, RatInv(y))

Leq[x \in Rational, y \in Rational] == x.n * y.d <= y.n * x.d

RatLeq(x, y) == Leq[x, y]
RatLt(x, y) == ~Leq[y, x]

RECURSIVE Pow10(_)
Pow10(k) == IF k = 0 THEN 1 ELSE 10 * Pow10(k - 1)

\* Number of decimals of the "{:.6f}" format of the filter-graph factors.
FmtDigits == 6

\* Long division of r/den to k more decimals, rounding the last one.
LongDiv[r \in Nat, den \in Nat, k \in Nat, acc \in Nat] ==
    IF k = 0
    THEN (IF 2 * r >= den THEN acc + 1 ELSE acc)
    ELSE LongDiv[(r * 10) % den, den, k - 1, acc * 10 + ((r * 10) \div den)]

\* f"{x:.6f}" read back as a number: x rounded to FmtDigits decimals.
Rounded[x \in Rational] ==
    LET a == Abs(x.n)
        m == LongDiv[a % x.d, x.d, FmtDigits, a \div x.d]
    IN  Rat((IF x.n < 0 THEN -1 ELSE 1) * m, Pow10(FmtDigits))

Fmt6(x) == Rounded[x]

RECURSIVE RatProd(_)
RatProd(s) == IF s = <<>> THEN RatInt(1) ELSE RatMul(Head(s), RatProd(Tail(s)))


-----------------------------------------------------------------------------
(* SyncMethod and the Strategist: analyze_sync_strategy *)

VIDEO_SPEED == "video_speed"
AUDIO_SPEED == "audio_speed"
BALANCED == "balanced"
CROP_EXTEND == "crop_extend"
SMART_AUTO == "smart_auto"

SyncMethod == {VIDEO_SPEED, AUDIO_SPEED, BALANCED, CROP_EXTEND, SMART_AUTO}

\* The duration_ratio thresholds of the method selection.
CropThreshold == Rat(105, 100)
BalancedThreshold == Rat(115, 100)
SpeedThreshold == Rat(15, 10)

\* `v_dur == 0 or a_dur == 0`: the durations analyze_sync_strategy rejects.
InvalidDurations(v_dur, a_dur) == v_dur = 0 \/ a_dur = 0

\* Faulty variant of RecommendedMethod: the 1.5 boundary tested with < instead of <=.
RecommendedMethodStrict(v_dur, a_dur, duration_ratio) ==
    IF RatLeq(duration_ratio, CropThreshold) THEN
        [recommended_method |-> CROP_EXTEND, quality_impact |-> "minimal"]
    ELSE IF RatLeq(duration_ratio, BalancedThreshold) THEN
        [recommended_method |-> BALANCED, quality_impact |-> "low"]
    ELSE IF RatLt(duration_ratio, SpeedThreshold) THEN
        [recommended_method |-> IF v_dur > a_dur THEN VIDEO_SPEED ELSE AUDIO_SPEED,
         quality_impact |-> "moderate"]
    ELSE
        [recommended_method |-> BALANCED, quality_impact |-> "high"]

\* recommended_method and quality_impact by duration_ratio, first match wins.
RecommendedMethod(v_dur, a_dur, duration_ratio) ==
    IF RatLeq(duration_ratio, CropThreshold) THEN
        [recommended_method |-> CROP_EXTEND, quality_impact |-> "minimal"]
    ELSE IF RatLeq(duration_ratio, BalancedThreshold) THEN
        [recommended_method |-> BALANCED, quality_impact |-> "low"]
    ELSE IF RatLeq(duration_ratio, SpeedThreshold) THEN
        [recommended_method |-> IF v_dur > a_dur THEN VIDEO_SPEED ELSE AUDIO_SPEED,
         quality_impact |-> "moderate"]
    ELSE
        [recommended_method |-> BALANCED, quality_impact |-> "high"]

\* speed_factor_needed = v_dur / a_dur
SpeedFactorNeeded(v_dur, a_dur) == Rat(v_dur, a_dur)

\* The analysis dict analyze_sync_strategy returns for nonzero durations.
AnalyzeSyncStrategy(v_dur, a_dur) ==
    LET hi == IF v_dur > a_dur THEN v_dur ELSE a_dur
        lo == IF v_dur < a_dur THEN v_dur ELSE a_dur
        duration_diff == Abs(v_dur - a_dur)
        duration_ratio == Rat(hi, lo)
        rec == RecommendedMethod(v_dur, a_dur, duration_ratio)
    IN  [video_duration |-> v_dur,
         audio_duration |-> a_dur,
         difference_seconds |-> duration_diff,
         difference_percent |-> Rat(duration_diff * 100, hi),
         duration_ratio |-> duration_ratio,
         recommended_method |-> rec.recommended_method,
         speed_factor_needed |-> SpeedFactorNeeded(v_dur, a_dur),
         quality_impact |-> rec.quality_impact]

\* Faulty variant of ResolveMethod: the recommendation replaces the caller's method.
ResolveMethodAlwaysAuto(m, an) == an.recommended_method

\* `if method == SyncMethod.SMART_AUTO: method = analysis['recommended_method']`
ResolveMethod(m, an) == IF m = SMART_AUTO THEN an.recommended_method ELSE m

-----------------------------------------------------------------------------
(* The Executor's filter graphs *)

\* ffmpeg's per-stage atempo limits, as the source states them.
AtempoMin == Rat(1, 2)
AtempoMax == Rat(100, 1)

InAtempoRange(f) == RatLeq(AtempoMin, f) /\ RatLeq(f, AtempoMax)

\* `while remaining > 100.0: chain.append('atempo=100.0'); remaining /= 100.0`
RECURSIVE ChainHigh(_, _)
ChainHigh(chain, remaining) ==
    IF RatLt(AtempoMax, remaining)
    THEN ChainHigh(Append(chain, AtempoMax), RatDiv(remaining, AtempoMax))
    ELSE [chain |-> chain, remaining |-> remaining]

\* `while remaining < 0.5: chain.append('atempo=0.5'); remaining /= 0.5`
\* (only evaluated for remaining > 0: see ChainDiverges)
RECURSIVE ChainLow(_, _)
ChainLow(chain, remaining) ==
    IF RatLt(remaining, AtempoMin)
    THEN ChainLow(Append(chain, AtempoMin), RatDiv(remaining, AtempoMin))
    ELSE [chain |-> chain, remaining |-> remaining]

\* Faulty variant of ChainResidual: the residual stage is never appended.
ChainResidualDropped(chain, remaining) == chain

\* `if remaining != 1.0: chain.append(f'atempo={remaining:.6f}')`
ChainResidual(chain, remaining) ==
    IF remaining # RatInt(1) THEN Append(chain, Fmt6(remaining)) ELSE chain

\* _build_atempo_chain(speed_factor) for speed_factor > 0: the atempo stages of
\* the returned filter string, in order.
BuildAtempoChain(speed_factor) ==
    IF InAtempoRange(speed_factor)
    THEN <<Fmt6(speed_factor)>>
    ELSE LET hi == ChainHigh(<<>>, speed_factor)
             lo == ChainLow(hi.chain, hi.remaining)
         IN  ChainResidual(lo.chain, lo.remaining)

\* For speed_factor <= 0 the second loop of _build_atempo_chain never ends:
\* remaining stays below 0.5 while the list grows, until the interpreter
\* raises MemoryError.
ChainDiverges(speed_factor) == speed_factor.n <= 0

NoCmd == [variant |-> "none", setpts |-> <<>>, atempo |-> <<>>, limit |-> <<>>]

\* _sync_video_speed: setpts={speed_factor:.6f}*PTS, audio mapped unchanged.
SyncVideoSpeed(an) ==
    [exc |-> "",
     cmd |-> [variant |-> VIDEO_SPEED,
              setpts |-> <<Fmt6(an.speed_factor_needed)>>,
              atempo |-> <<>>,
              limit |-> <<>>]]

\* Faulty variant of SyncAudioSpeed: speed_factor_needed used without the
\* reciprocal.
SyncAudioSpeedNoReciprocal(an) ==
    LET speed_factor == an.speed_factor_needed
    IN  IF RatLt(speed_factor, AtempoMin) \/ RatLt(AtempoMax, speed_factor)
        THEN IF ChainDiverges(speed_factor)
             THEN [exc |-> "MemoryError", cmd |-> NoCmd]
             ELSE [exc |-> "",
                   cmd |-> [variant |-> AUDIO_SPEED, setpts |-> <<>>,
                            atempo |-> BuildAtempoChain(speed_factor),
                            limit |-> <<>>]]
        ELSE [exc |-> "",
              cmd |-> [variant |-> AUDIO_SPEED, setpts |-> <<>>,
                       atempo |-> <<Fmt6(speed_factor)>>,
                       limit |-> <<>>]]

\* _sync_audio_speed: atempo of 1 / speed_factor_needed, video mapped unchanged.
SyncAudioSpeed(an) ==
    LET speed_factor == RatInv(an.speed_factor_needed)
    IN  IF RatLt(speed_factor, AtempoMin) \/ RatLt(AtempoMax, speed_factor)
        THEN IF ChainDiverges(speed_factor)
             THEN [exc |-> "MemoryError", cmd |-> NoCmd]
             ELSE [exc |-> "",
                   cmd |-> [variant |-> AUDIO_SPEED, setpts |-> <<>>,
                            atempo |-> BuildAtempoChain(speed_factor),
                            limit |-> <<>>]]
        ELSE [exc |-> "",
              cmd |-> [variant |-> AUDIO_SPEED, setpts |-> <<>>,
                       atempo |-> <<Fmt6(speed_factor)>>,
                       limit |-> <<>>]]

\* _sync_balanced: both streams adjusted with target_duration = (v + a) / 2.
SyncBalanced(an) ==
    LET target_duration == Rat(an.video_duration + an.audio_duration, 2)
    IN  IF target_duration.n = 0
        THEN [exc |-> "ZeroDivisionError", cmd |-> NoCmd]
        ELSE LET video_speed == RatDiv(RatInt(an.video_duration), target_duration)
                 audio_speed == RatDiv(target_duration, RatInt(an.audio_duration))
             IN  IF ChainDiverges(audio_speed)
                 THEN [exc |-> "MemoryError", cmd |-> NoCmd]
                 ELSE [exc |-> "",
                       cmd |-> [variant |-> BALANCED,
                                setpts |-> <<Fmt6(video_speed)>>,
                                atempo |-> BuildAtempoChain(audio_speed),
                                limit |-> <<>>]]

\* _sync_crop_extend: no filter, output limited to min(v_dur, a_dur).
SyncCropExtend(an) ==
    LET v_dur == an.video_duration
        a_dur == an.audio_duration
    IN  [exc |-> "",
         cmd |-> [variant |-> CROP_EXTEND, setpts |-> <<>>, atempo |-> <<>>,
                  limit |-> <<RatInt(IF v_dur < a_dur THEN v_dur ELSE a_dur)>>]]

\* The if/elif dispatch of sync_media on the resolved method.
Dispatch(m, an) ==
    IF m = VIDEO_SPEED THEN SyncVideoSpeed(an)
    ELSE IF m = AUDIO_SPEED THEN SyncAudioSpeed(an)
    ELSE IF m = BALANCED THEN SyncBalanced(an)
    ELSE IF m = CROP_EXTEND THEN SyncCropExtend(an)
    ELSE [exc |-> "", cmd |-> NoCmd]

-----------------------------------------------------------------------------
(* The environment of a run: command lines, files, external tools *)

\* Command lines: too few arguments, the default method, each method token
\* and a token that is no SyncMethod value.
ArgvInputs ==
    {<<"prog", "video", "audio">>, <<"prog", "video", "audio", "out">>}
    \cup {<<"prog", "video", "audio", "out", t>> : t \in SyncMethod \cup {"bogus"}}

\* Durations ffprobe may report (float(data['format'].get('duration', 0))).
Durations == -1 .. MaxDur

\* How the ffprobe call of get_media_info ends.
ProbeOutcomes == {"ok", "probe_error", "value_error"}

\* How the ffmpeg call of _execute_ffmpeg ends.
FfmpegOutcomes == {"spawn_error", "nonzero", "zero"}

\* Sizes in bytes of the destination file after ffmpeg ran.
OutSizes == {0, 1000, 1001}

\* Faulty variant of GetMediaInfo: a missing or unparseable file yields an
\* info dict instead of an exception.
GetMediaInfoSwallows(exists, outcome, dur) ==
    [exc |-> "", info |-> <<[duration |-> dur]>>]

\* get_media_info(file_path): the exception it raises ("" for none) and the
\* info dict it returns.
GetMediaInfo(exists, outcome, dur) ==
    IF ~exists THEN [exc |-> "FileNotFoundError", info |-> <<>>]
    ELSE IF outcome = "probe_error" THEN [exc |-> "RuntimeError", info |-> <<>>]
    ELSE IF outcome = "value_error" THEN [exc |-> "ValueError", info |-> <<>>]
    ELSE [exc |-> "", info |-> <<[duration |-> dur]>>]

\* Faulty variant of ExecuteFfmpeg: the return code is not looked at.
ExecuteFfmpegIgnoresCode(outcome) == outcome # "spawn_error"

\* _execute_ffmpeg's return value: False when Popen raised or the return code
\* is not 0, True otherwise.
ExecuteFfmpeg(outcome) == outcome = "zero"

\* Faulty variant of MediaSyncerExit: the directory is left behind.
MediaSyncerExitKeeps(td, on_disk) == on_disk

\* __exit__: whether the temporary directory is on disk afterwards.
MediaSyncerExit(td, on_disk) == IF td # <<>> /\ on_disk THEN FALSE ELSE on_disk

\* The process's exit status: 1 for an uncaught exception, else
\* `sys.exit(0 if success else 1)`.
ExitStatus(e, ok) == IF e # "" THEN 1 ELSE IF ok = <<TRUE>> THEN 0 ELSE 1

-----------------------------------------------------------------------------
(* One run of main *)

Init ==
    /\ argv \in ArgvInputs
    /\ pc = "main"
    /\ temp_dir = <<>>
    /\ fs_temp = FALSE
    /\ video_info = <<>>
    /\ audio_info = <<>>
    /\ analysis = <<>>
    /\ method = "unset"
    /\ cmd = NoCmd
    /\ transcodes = 0
    /\ probes = 0
    /\ returncode = <<>>
    /\ out_file = <<>>
    /\ success = <<>>
    /\ exc = ""
    /\ exit_code = <<>>
    /\ tempo_in = RatInt(1)
    /\ tempo_out = <<>>

\* An exception leaves the process before the session is entered.
Die(e) ==
    /\ exc' = e
    /\ exit_code' = <<ExitStatus(e, <<>>)>>
    /\ pc' = "exited"

\* An exception propagates out of sync_media, through the with block.
Raise(e) ==
    /\ exc' = e
    /\ pc' = "leave"

\* main, up to the with statement: usage check, SyncMethod(sys.argv[4]),
\* os.makedirs of the output directory.
Main ==
    /\ pc = "main"
    /\ \/ /\ Len(argv) < 4
          /\ exit_code' = <<1>>
          /\ pc' = "exited"
          /\ UNCHANGED <<exc, method>>
       \/ /\ Len(argv) >= 4
          /\ Len(argv) > 4
          /\ argv[5] \notin SyncMethod
          /\ Die("ValueError")
          /\ UNCHANGED method
       \/ /\ Len(argv) >= 4
          /\ Len(argv) > 4 => argv[5] \in SyncMethod
          /\ method' = IF Len(argv) > 4 THEN argv[5] ELSE SMART_AUTO
          /\ \/ /\ pc' = "enter"
                /\ UNCHANGED <<exc, exit_code>>
             \/ Die("OSError")
    /\ UNCHANGED <<argv, temp_dir, fs_temp, video_info, audio_info, analysis, cmd,
                   transcodes, probes, returncode, out_file, success,
                   tempo_in, tempo_out>>

\* `with MediaSyncer() as syncer`: __init__ and __enter__ (tempfile.mkdtemp).
Enter ==
    /\ pc = "enter"
    /\ \/ /\ temp_dir' = <<"media_sync_">>
          /\ fs_temp' = TRUE
          /\ pc' = "probe_video"
          /\ UNCHANGED <<exc, exit_code>>
       \/ /\ Die("OSError")
          /\ UNCHANGED <<temp_dir, fs_temp>>
    /\ UNCHANGED <<argv, video_info, audio_info, analysis, method, cmd, transcodes,
                   probes, returncode, out_file, success, tempo_in, tempo_out>>

\* sync_media: video_info = self.get_media_info(video_path)
ProbeVideo ==
    /\ pc = "probe_video"
    /\ \E exists \in BOOLEAN, outcome \in ProbeOutcomes, dur \in Durations :
          LET r == GetMediaInfo(exists, outcome, dur)
          IN  /\ probes' = IF exists THEN probes + 1 ELSE probes
              /\ IF r.exc # ""
                 THEN Raise(r.exc) /\ UNCHANGED video_info
                 ELSE /\ video_info' = r.info
                      /\ pc' = "probe_audio"
                      /\ UNCHANGED exc
    /\ UNCHANGED <<argv, temp_dir, fs_temp, audio_info, analysis, method, cmd,
                   transcodes, returncode, out_file, success, exit_code,
                   tempo_in, tempo_out>>

\* sync_media: audio_info = self.get_media_info(audio_path)
ProbeAudio ==
    /\ pc = "probe_audio"
    /\ \E exists \in BOOLEAN, outcome \in ProbeOutcomes, dur \in Durations :
          LET r == GetMediaInfo(exists, outcome, dur)
          IN  /\ probes' = IF exists THEN probes + 1 ELSE probes
              /\ IF r.exc # ""
                 THEN Raise(r.exc) /\ UNCHANGED audio_info
                 ELSE /\ audio_info' = r.info
                      /\ pc' = "analyze"
                      /\ UNCHANGED exc
    /\ UNCHANGED <<argv, temp_dir, fs_temp, video_info, analysis, method, cmd,
                   transcodes, returncode, out_file, success, exit_code,
                   tempo_in, tempo_out>>

\* sync_media: analysis = self.analyze_sync_strategy(...), then the
\* resolution of SMART_AUTO.
Analyze ==
    /\ pc = "analyze"
    /\ LET v_dur == video_info[1].duration
           a_dur == audio_info[1].duration
       IN  IF InvalidDurations(v_dur, a_dur)
           THEN Raise("ValueError") /\ UNCHANGED <<analysis, method>>
           ELSE LET an == AnalyzeSyncStrategy(v_dur, a_dur)
                IN  /\ analysis' = <<an>>
                    /\ method' = ResolveMethod(method, an)
                    /\ pc' = "transcode"
                    /\ UNCHANGED exc
    /\ UNCHANGED <<argv, temp_dir, fs_temp, video_info, audio_info, cmd,
                   transcodes, probes, returncode, out_file, success, exit_code,
                   tempo_in, tempo_out>>

\* sync_media: the dispatch to a _sync_* variant, which builds the command
\* and runs it with _execute_ffmpeg.
Transcode ==
    /\ pc = "transcode"
    /\ \/ /\ Dispatch(method, analysis[1]).exc # ""
          /\ Raise(Dispatch(method, analysis[1]).exc)
          /\ UNCHANGED <<cmd, transcodes, returncode, out_file, success>>
       \/ /\ Dispatch(method, analysis[1]).exc = ""
          /\ cmd' = Dispatch(method, analysis[1]).cmd
          /\ transcodes' = transcodes + 1
          /\ \E outcome \in FfmpegOutcomes :
                /\ returncode' = IF outcome = "zero" THEN <<0>>
                                 ELSE IF outcome = "nonzero" THEN <<1>>
                                 ELSE <<>>
                /\ out_file' \in IF outcome = "spawn_error" THEN {out_file}
                                 ELSE {<<>>} \cup {<<n>> : n \in OutSizes}
                /\ pc' = IF ExecuteFfmpeg(outcome) THEN "final_probe" ELSE "leave"
                /\ success' = IF ExecuteFfmpeg(outcome) THEN success ELSE <<FALSE>>
          /\ UNCHANGED exc
    /\ UNCHANGED <<argv, temp_dir, fs_temp, video_info, audio_info, analysis,
                   method, probes, exit_code, tempo_in, tempo_out>>

\* sync_media: `if success: final_info = self.get_media_info(output_path)`,
\* then `return success`.
FinalProbe ==
    /\ pc = "final_probe"
    /\ \E outcome \in ProbeOutcomes :
          LET exists == out_file # <<>>
              r == GetMediaInfo(exists, outcome, 0)
          IN  /\ (exists /\ out_file[1] = 0) => outcome # "ok"
              /\ probes' = IF exists THEN probes + 1 ELSE probes
              /\ IF r.exc # ""
                 THEN Raise(r.exc) /\ UNCHANGED success
                 ELSE /\ success' = <<TRUE>>
                      /\ pc' = "leave"
                      /\ UNCHANGED exc
    /\ UNCHANGED <<argv, temp_dir, fs_temp, video_info, audio_info, analysis,
                   method, cmd, transcodes, returncode, out_file, exit_code,
                   tempo_in, tempo_out>>

\* The with block is left (sys.exit's SystemExit or an exception): __exit__
\* runs, then the process ends.
Leave ==
    /\ pc = "leave"
    /\ fs_temp' = MediaSyncerExit(temp_dir, fs_temp)
    /\ exit_code' = <<ExitStatus(exc, success)>>
    /\ pc' = "exited"
    /\ UNCHANGED <<argv, temp_dir, video_info, audio_info, analysis, method, cmd,
                   transcodes, probes, returncode, out_file, success, exc,
                   tempo_in, tempo_out>>

Next ==
    \/ Main
    \/ Enter
    \/ ProbeVideo
    \/ ProbeAudio
    \/ Analyze
    \/ Transcode
    \/ FinalProbe
    \/ Leave

Spec == Init /\ [][Next]_vars

\* Every external process ends and the interpreter keeps running the script.
FairSpec == Spec /\ WF_vars(Next)

-----------------------------------------------------------------------------
(* Harness for _build_atempo_chain as a pure function *)

\* Requested tempo factors n * 10^e / d, all > 0.
TempoInputs ==
    {Rat(n * Pow10(e), d) : n \in 1 .. MaxTempoNum, d \in 1 .. MaxTempoDen,
                            e \in 0 .. MaxTempoExp}

ChainInit ==
    /\ tempo_in \in TempoInputs
    /\ tempo_out = <<>>
    /\ argv = <<"prog">>
    /\ pc = "main"
    /\ temp_dir = <<>>
    /\ fs_temp = FALSE
    /\ video_info = <<>>
    /\ audio_info = <<>>
    /\ analysis = <<>>
    /\ method = "unset"
    /\ cmd = NoCmd
    /\ transcodes = 0
    /\ probes = 0
    /\ returncode = <<>>
    /\ out_file = <<>>
    /\ success = <<>>
    /\ exc = ""
    /\ exit_code = <<>>

\* chain = self._build_atempo_chain(tempo_in)
BuildChain ==
    /\ tempo_out = <<>>
    /\ tempo_out' = <<BuildAtempoChain(tempo_in)>>
    /\ UNCHANGED <<tempo_in, runVars>>

ChainNext == BuildChain

ChainSpec == ChainInit /\ [][ChainNext]_vars

-----------------------------------------------------------------------------
(* Harness for analyze_sync_strategy + _sync_audio_speed as a pure function *)

\* Video durations 1 .. MaxTempoDen and audio durations n * 10^e, so that the
\* tempo factor a / v ranges over TempoInputs (below 0.5, inside the atempo
\* range and above 100).
AudioSpeedInit ==
    /\ \E v \in 1 .. MaxTempoDen, n \in 1 .. MaxTempoNum, e \in 0 .. MaxTempoExp :
          /\ video_info = <<[duration |-> v]>>
          /\ audio_info = <<[duration |-> n * Pow10(e)]>>
    /\ argv = <<"prog", "video", "audio", "out", AUDIO_SPEED>>
    /\ pc = "analyze"
    /\ temp_dir = <<>>
    /\ fs_temp = FALSE
    /\ analysis = <<>>
    /\ method = AUDIO_SPEED
    /\ cmd = NoCmd
    /\ transcodes = 0
    /\ probes = 0
    /\ returncode = <<>>
    /\ out_file = <<>>
    /\ success = <<>>
    /\ exc = ""
    /\ exit_code = <<>>
    /\ tempo_in = RatInt(1)
    /\ tempo_out = <<>>

\* analysis = analyze_sync_strategy(...); the command _sync_audio_speed builds.
ApplyAudioSpeed ==
    /\ pc = "analyze"
    /\ LET an == AnalyzeSyncStrategy(video_info[1].duration, audio_info[1].duration)
       IN  /\ analysis' = <<an>>
           /\ cmd' = SyncAudioSpeed(an).cmd
    /\ pc' = "transcode"
    /\ UNCHANGED <<argv, temp_dir, fs_temp, video_info, audio_info, method,
                   transcodes, probes, returncode, out_file, success, exc,
                   exit_code, tempo_in, tempo_out>>

AudioSpeedNext == ApplyAudioSpeed

AudioSpeedSpec == AudioSpeedInit /\ [][AudioSpeedNext]_vars

-----------------------------------------------------------------------------
(* Properties *)

\* x and y (y # 0) agree within the relative rounding error of one factor
\* printed with FmtDigits decimals: |x / y - 1| <= 10^-FmtDigits.
Close(x, y) ==
    LET q == RatDiv(x, y)
    IN  Abs(q.n - q.d) <= q.d \div Pow10(FmtDigits)

VDur == video_info[1].duration
ADur == audio_info[1].duration
Inspected == video_info # <<>> /\ audio_info # <<>>
Concrete == {VIDEO_SPEED, AUDIO_SPEED, BALANCED, CROP_EXTEND}
CallerMethod == IF Len(argv) > 4 THEN argv[5] ELSE SMART_AUTO

\* The selection table of the specification for v, a > 0, in integers:
\* L/S <= 1.05, <= 1.15, <= 1.50, else.
TableChoice(v, a) ==
    LET L == IF v > a THEN v ELSE a
        S == IF v < a THEN v ELSE a
    IN  IF 100 * L <= 105 * S THEN <<CROP_EXTEND, "minimal">>
        ELSE IF 100 * L <= 115 * S THEN <<BALANCED, "low">>
        ELSE IF 100 * L <= 150 * S
             THEN <<IF v > a THEN VIDEO_SPEED ELSE AUDIO_SPEED, "moderate">>
        ELSE <<BALANCED, "high">>

\* C1: for positive durations the analysis just returned recommends the method and the
\* quality label of the first matching band of max/min (<= 1.05 crop_extend,
\* <= 1.15 balanced, <= 1.50 video_speed or audio_speed by the longer side,
\* above that balanced), and any other pair of durations with the same ratio
\* and the same longer side gets the same recommendation.
C1_MethodSelection ==
    (pc = "transcode" /\ VDur > 0 /\ ADur > 0) =>
        /\ <<analysis[1].recommended_method, analysis[1].quality_impact>>
              = TableChoice(VDur, ADur)
        /\ analysis[1].duration_ratio
              = Rat(IF VDur > ADur THEN VDur ELSE ADur,
                    IF VDur < ADur THEN VDur ELSE ADur)
        /\ \A v2, a2 \in 1 .. MaxDur :
              (v2 * ADur = VDur * a2) =>
                 LET other == AnalyzeSyncStrategy(v2, a2)
                 IN  /\ other.recommended_method = analysis[1].recommended_method
                     /\ other.quality_impact = analysis[1].quality_impact

\* C1 witness: the 1.5 boundary with the video longer selects video_speed.
C1_Witness ==
    /\ pc = "transcode"
    /\ VDur = 30 /\ ADur = 20
    /\ analysis[1].recommended_method = VIDEO_SPEED
    /\ analysis[1].quality_impact = "moderate"
    /\ analysis[1].speed_factor_needed = Rat(3, 2)

\* C2: in the video_speed variant the setpts multiplier times the video
\* duration equals the audio duration, within tolerance.
C2_VideoMatchesAudio ==
    (cmd.variant = VIDEO_SPEED /\ VDur > 0 /\ ADur > 0) =>
        Close(RatMul(RatInt(VDur), cmd.setpts[1]), RatInt(ADur))

\* C3: in the balanced variant the rescaled video duration and the
\* tempo-adjusted audio duration both equal (v + a) / 2, within tolerance.
C3_BalancedMeetsTarget ==
    (cmd.variant = BALANCED /\ VDur > 0 /\ ADur > 0) =>
        LET target == Rat(VDur + ADur, 2)
        IN  /\ Close(RatMul(RatInt(VDur), cmd.setpts[1]), target)
            /\ Close(RatDiv(RatInt(ADur), RatProd(cmd.atempo)), target)

\* C4: the chain built for a factor f > 0 has product f within tolerance and
\* every stage in [0.5, 100]; it is the single stage f when f is in
\* [0.5, 100], and <<100, 2.5>> for f = 250.
C4_ChainDecomposition ==
    tempo_out # <<>> =>
        LET chain == tempo_out[1]
            inside == RatLeq(Rat(1, 2), tempo_in) /\ RatLeq(tempo_in, RatInt(100))
        IN  /\ Close(RatProd(chain), tempo_in)
            /\ \A i \in 1 .. Len(chain) :
                  RatLeq(Rat(1, 2), chain[i]) /\ RatLeq(chain[i], RatInt(100))
            /\ inside => (Len(chain) = 1 /\ Close(chain[1], tempo_in))
            /\ tempo_in = RatInt(250) => chain = <<RatInt(100), Rat(5, 2)>>

\* C4 witness: the factor 250 was decomposed into two stages.
C4_Witness ==
    /\ tempo_in = RatInt(250)
    /\ tempo_out = << <<RatInt(100), Rat(5, 2)>> >>

\* C5: once both inputs are inspected and a duration is <= 0, the analysis
\* fails with the invalid-duration error: no analysis, no transcode.
C5_NonPositiveRejected ==
    (Inspected /\ pc # "analyze" /\ (VDur <= 0 \/ ADur <= 0)) =>
        /\ exc = "ValueError"
        /\ analysis = <<>>
        /\ transcodes = 0

\* C6: after a transcode of valid inputs that exited with status 0, the run
\* reports success only if the destination exists and is larger than 1000
\* bytes, and exits with code 1 otherwise.
C6_OutputSizeChecked ==
    (pc = "exited" /\ returncode = <<0>> /\ VDur > 0 /\ ADur > 0) =>
        LET plausible == out_file # <<>> /\ out_file[1] > 1000
        IN  /\ (success = <<TRUE>> \/ exit_code = <<0>>) => plausible
            /\ ~plausible => exit_code = <<1>>

\* C7: the session's temporary directory is removed on every exit path: no
\* run has ended with it on disk, and whenever it is on disk it is
\* eventually removed.
C7_TempDirRemoved ==
    /\ [](pc = "exited" => ~fs_temp)
    /\ (fs_temp ~> (pc = "exited" /\ ~fs_temp))

\* C7 witness: a run that created the directory ended by an exception with
\* the directory removed.
C7_Witness ==
    /\ pc = "exited"
    /\ temp_dir # <<>>
    /\ ~fs_temp
    /\ exc = "RuntimeError"

\* C8: a transcode is started only after video inspection, audio inspection
\* and analysis succeeded in that order, at most once, and never in a run
\* where an input is missing, a probe failed or a duration is invalid (<= 0).
C8_TranscodeLast ==
    /\ audio_info # <<>> => video_info # <<>>
    /\ analysis # <<>> => audio_info # <<>>
    /\ transcodes > 0 => analysis # <<>>
    /\ transcodes <= 1
    /\ (pc = "exited" /\ success = <<>> /\ analysis = <<>>) => transcodes = 0
    /\ (Inspected /\ (VDur <= 0 \/ ADur <= 0)) => transcodes = 0

\* C9: the process exits with 0 exactly when sync_media returned True, and
\* with 1 for a missing file, an invalid method token, a probe failure and a
\* non-zero transcode exit, the last one returned as False and not raised.
C9_ExitCodes ==
    pc = "exited" =>
        /\ exit_code \in {<<0>>, <<1>>}
        /\ exit_code = <<0>> <=> (success = <<TRUE>> /\ exc = "")
        /\ exc \in {"FileNotFoundError", "RuntimeError"} => exit_code = <<1>>
        /\ (Len(argv) > 4 /\ argv[5] \notin SyncMethod) =>
              (exit_code = <<1>> /\ exc = "ValueError" /\ temp_dir = <<>>)
        /\ returncode = <<1>> =>
              (success = <<FALSE>> /\ exc = "" /\ exit_code = <<1>>)

\* C9 witness: a run whose transcode exited non-zero ended with code 1 and
\* no exception.
C9_Witness ==
    /\ pc = "exited"
    /\ returncode = <<1>>
    /\ success = <<FALSE>>
    /\ exc = ""
    /\ exit_code = <<1>>

\* C10: the dispatched method is the recommendation when the caller passed
\* smart_auto and the caller's method otherwise; it is one of the four
\* concrete variants, and the command run is that variant's, run once.
C10_DispatchedMethod ==
    analysis # <<>> =>
        /\ method = IF CallerMethod = SMART_AUTO
                    THEN analysis[1].recommended_method
                    ELSE CallerMethod
        /\ method \in Concrete
        /\ cmd.variant # "none" => (cmd.variant = method /\ transcodes = 1)
        /\ transcodes > 0 => cmd.variant \in Concrete

\* C10 witness: the caller's video_speed was dispatched against a balanced
\* recommendation.
C10_Witness ==
    /\ analysis # <<>>
    /\ CallerMethod = VIDEO_SPEED
    /\ analysis[1].recommended_method = BALANCED
    /\ cmd.variant = VIDEO_SPEED
    /\ transcodes = 1

\* C11: in the audio_speed variant with positive durations the tempo factor
\* is the reciprocal of speed_factor_needed, that is a / v; the stages applied
\* multiply to it and bring the audio duration a to the video duration v,
\* within tolerance; a factor in [0.5, 100] is one stage, a factor outside it
\* a chain of more than one stage, each in [0.5, 100].
C11_AudioMatchesVideo ==
    (cmd.variant = AUDIO_SPEED /\ VDur > 0 /\ ADur > 0) =>
        LET f == Rat(ADur, VDur)
            chain == cmd.atempo
            inside == RatLeq(Rat(1, 2), f) /\ RatLeq(f, RatInt(100))
        IN  /\ RatMul(f, analysis[1].speed_factor_needed) = RatInt(1)
            /\ Close(RatProd(chain), f)
            /\ Close(RatDiv(RatInt(ADur), RatProd(chain)), RatInt(VDur))
            /\ inside => (Len(chain) = 1 /\ Close(chain[1], f))
            /\ ~inside => Len(chain) > 1
            /\ \A i \in 1 .. Len(chain) :
                  RatLeq(Rat(1, 2), chain[i]) /\ RatLeq(chain[i], RatInt(100))

\* C11 witness: audio of 300 against video of 1 got the chain <<100, 3>>.
C11_Witness ==
    /\ cmd.variant = AUDIO_SPEED
    /\ VDur = 1 /\ ADur = 300
    /\ cmd.atempo = <<RatInt(100), RatInt(3)>>

\* C12: sync_media returns True only after a transcode that exited with
\* status 0 and a successful probe of the output file (the third probe of the
\* run); when the transcode exited with 0 and that probe failed, the run ends
\* with the probe's exception and exit code 1 and no success result; the
\* output is probed at most once and at most one transcode is ever started.
C12_SuccessNeedsFinalProbe ==
    /\ success = <<TRUE>> =>
          /\ returncode = <<0>>
          /\ out_file # <<>>
          /\ probes = 3
          /\ exc = ""
    /\ (pc \in {"leave", "exited"} /\ returncode = <<0>> /\ success # <<TRUE>>) =>
          /\ success = <<>>
          /\ exc \in {"FileNotFoundError", "RuntimeError", "ValueError"}
          /\ out_file = <<>> <=> exc = "FileNotFoundError"
          /\ probes = IF out_file = <<>> THEN 2 ELSE 3
          /\ pc = "exited" => exit_code = <<1>>
    /\ transcodes <= 1
    /\ probes <= 3

\* C12 witness: the transcode exited with 0, the output file exists, its
\* probe failed, and the run ended with RuntimeError and exit code 1.
C12_Witness ==
    /\ pc = "exited"
    /\ transcodes = 1
    /\ returncode = <<0>>
    /\ out_file # <<>>
    /\ probes = 3
    /\ exc = "RuntimeError"
    /\ success = <<>>
    /\ exit_code = <<1>>

=============================================================================
